---- MODULE Spec2Model ----
(***************************************************************************)
(* A model of AI_video.py: the transcript acquisition pipeline of the bot. *)
(*                                                                         *)
(* Texts are sequences of one-character strings, so that the regular       *)
(* expressions, str.strip, str.splitlines and the parsers are modelled by  *)
(* what they do to the characters.                                         *)
(***************************************************************************)
EXTENDS Integers, Sequences, FiniteSets, TLC

(***************************************************************************)
(* Characters and character classes                                        *)
(***************************************************************************)
Digits == {"0", "1", "2", "3", "4", "5", "6", "7", "8", "9"}

LowerCase ==
    {"a", "b", "c", "d", "e", "f", "g", "h", "i", "j", "k", "l", "m",
     "n", "o", "p", "q", "r", "s", "t", "u", "v", "w", "x", "y", "z"}

UpperCase ==
    {"A", "B", "C", "D", "E", "F", "G", "H", "I", "J", "K", "L", "M",
     "N", "O", "P", "Q", "R", "S", "T", "U", "V", "W", "X", "Y", "Z"}

\* The class [A-Za-z0-9_-] of YOUTUBE_STD_REGEX and of the bare-ID test.
IdChars == Digits \cup LowerCase \cup UpperCase \cup {"_", "-"}

\* What \s of the re module and str.strip() treat as white space (ASCII part).
Whitespace == {" ", "\t", "\n", "\r", "\f"}

\* int() of one decimal digit.
DigitVal(c) ==
    CASE c = "0" -> 0 [] c = "1" -> 1 [] c = "2" -> 2 [] c = "3" -> 3
      [] c = "4" -> 4 [] c = "5" -> 5 [] c = "6" -> 6 [] c = "7" -> 7
      [] c = "8" -> 8 [] c = "9" -> 9

\* int() of a string of decimal digits.
RECURSIVE ToInt(_)
ToInt(ds) ==
    IF ds = <<>> THEN 0
    ELSE 10 * ToInt(SubSeq(ds, 1, Len(ds) - 1)) + DigitVal(ds[Len(ds)])

RECURSIVE Flatten(_)
Flatten(ss) == IF ss = <<>> THEN <<>> ELSE Head(ss) \o Flatten(Tail(ss))

Min(S) == CHOOSE x \in S : \A y \in S : x <= y

\* text[p:].startswith(lit)
LitAt(t, p, lit) ==
    /\ p >= 1
    /\ p + Len(lit) - 1 <= Len(t)
    /\ SubSeq(t, p, p + Len(lit) - 1) = lit

\* str.strip()
RECURSIVE LStrip(_)
LStrip(t) ==
    IF t # <<>> /\ Head(t) \in Whitespace THEN LStrip(Tail(t)) ELSE t

RECURSIVE RStrip(_)
RStrip(t) ==
    IF t # <<>> /\ t[Len(t)] \in Whitespace
    THEN RStrip(SubSeq(t, 1, Len(t) - 1))
    ELSE t

Strip(t) == RStrip(LStrip(t))

(***************************************************************************)
(* The regular expressions for YouTube links                               *)
(***************************************************************************)
L_http == <<"h","t","t","p">>
L_s == <<"s">>
L_css == <<":","/","/">>
L_www == <<"w","w","w",".">>
L_youtube_com == <<"y","o","u","t","u","b","e",".","c","o","m","/">>
L_youtu_be == <<"y","o","u","t","u",".","b","e","/">>
L_guc ==
    <<"g","o","o","g","l","e","u","s","e","r","c","o","n","t","e","n","t",
      ".","c","o","m","/","y","o","u","t","u","b","e",".","c","o","m","/">>

\* The alternation (?:watch\?v=|shorts/|live/|embed/|v/), in its order.
StdPaths ==
    << <<"w","a","t","c","h","?","v","=">>,
       <<"s","h","o","r","t","s","/">>,
       <<"l","i","v","e","/">>,
       <<"e","m","b","e","d","/">>,
       <<"v","/">> >>

\* The length {11} of the ID group.
IdLen == 11

NoMatch == [ok |-> FALSE, g0 |-> <<>>, g1 |-> <<>>]

\* Where "https?://" started at p can end: "s?" is greedy, tried with the s first.
SchemeEnds(t, p) ==
    LET h == IF LitAt(t, p, L_http) THEN <<p + 4>> ELSE <<>>
        s == Flatten([i \in 1..Len(h) |->
                 IF LitAt(t, h[i], L_s) THEN <<h[i] + 1, h[i]>> ELSE <<h[i]>>])
    IN  Flatten([i \in 1..Len(s) |->
            IF LitAt(t, s[i], L_css) THEN <<s[i] + 3>> ELSE <<>>])

\* Where the optional greedy group (?:www\.)? started at p can end.
WwwEnds(t, p) == IF LitAt(t, p, L_www) THEN <<p + 4, p>> ELSE <<p>>

\* Where (?:youtube\.com/(?:watch\?v=|shorts/|live/|embed/|v/)|youtu\.be/)
\* started at p can end.
HostEnds(t, p) ==
    LET y == IF LitAt(t, p, L_youtube_com) THEN <<p + Len(L_youtube_com)>> ELSE <<>>
        paths == Flatten([i \in 1..Len(y) |->
                    Flatten([k \in 1..Len(StdPaths) |->
                        IF LitAt(t, y[i], StdPaths[k])
                        THEN <<y[i] + Len(StdPaths[k])>> ELSE <<>>])])
    IN  paths \o (IF LitAt(t, p, L_youtu_be) THEN <<p + Len(L_youtu_be)>> ELSE <<>>)

\* ([A-Za-z0-9_-]{11}) at p.
IdAt(t, p) ==
    /\ p + IdLen - 1 <= Len(t)
    /\ \A k \in p..(p + IdLen - 1) : t[k] \in IdChars

\* YOUTUBE_STD_REGEX matched at position p, the alternatives in the order the
\* backtracking matcher tries them.
StdMatchAt(t, p) ==
    LET a == SchemeEnds(t, p) \o <<p>>
        b == Flatten([i \in 1..Len(a) |-> WwwEnds(t, a[i])])
        c == Flatten([i \in 1..Len(b) |-> HostEnds(t, b[i])])
        IdOk(q) == IdAt(t, q)
        ok == SelectSeq(c, IdOk)
    IN  IF ok = <<>> THEN NoMatch
        ELSE [ok |-> TRUE,
              g0 |-> SubSeq(t, p, ok[1] + IdLen - 1),
              g1 |-> SubSeq(t, ok[1], ok[1] + IdLen - 1)]

\* YOUTUBE_STD_REGEX.search(t): the leftmost match.
StdSearch(t) ==
    LET ps == {p \in 1..Len(t) : StdMatchAt(t, p).ok}
    IN  IF ps = {} THEN NoMatch ELSE StdMatchAt(t, Min(ps))

\* The end (exclusive) of the greedy [0-9]+ started at p; p itself when no digit.
RECURSIVE DigitsEnd(_, _)
DigitsEnd(t, p) ==
    IF p <= Len(t) /\ t[p] \in Digits THEN DigitsEnd(t, p + 1) ELSE p

\* YOUTUBE_GOOGLEUSERCONTENT_NUMERIC_REGEX matched at position p.
GucMatchAt(t, p) ==
    LET a == SchemeEnds(t, p)
        b == Flatten([i \in 1..Len(a) |-> WwwEnds(t, a[i])])
        c == Flatten([i \in 1..Len(b) |->
                 IF LitAt(t, b[i], L_guc) THEN <<b[i] + Len(L_guc)>> ELSE <<>>])
        NumOk(q) == DigitsEnd(t, q) > q
        ok == SelectSeq(c, NumOk)
    IN  IF ok = <<>> THEN NoMatch
        ELSE [ok |-> TRUE,
              g0 |-> SubSeq(t, p, DigitsEnd(t, ok[1]) - 1),
              g1 |-> SubSeq(t, p, DigitsEnd(t, ok[1]) - 1)]

\* YOUTUBE_GOOGLEUSERCONTENT_NUMERIC_REGEX.search(t)
GucSearch(t) ==
    LET ps == {p \in 1..Len(t) : GucMatchAt(t, p).ok}
    IN  IF ps = {} THEN NoMatch ELSE GucMatchAt(t, Min(ps))

\* re.match(r"^[A-Za-z0-9_-]+$", t): $ also matches before one final newline.
BareIdMatch(t) ==
    \/ t # <<>> /\ \A k \in 1..Len(t) : t[k] \in IdChars
    \/ /\ Len(t) >= 2
       /\ t[Len(t)] = "\n"
       /\ \A k \in 1..(Len(t) - 1) : t[k] \in IdChars

NotFound == <<>>

\* The three rules of handle_message that find the reference in the stripped
\* text; NotFound stands for vid_url_or_id = None.
\* The bare-ID rule without its test of the length.
BareRule_NoLength(text) ==
    IF BareIdMatch(text) THEN text ELSE NotFound

BareRule(text) ==
    IF Len(text) = IdLen /\ BareIdMatch(text) THEN text ELSE NotFound

GucRule(text) ==
    IF GucSearch(text).ok THEN GucSearch(text).g1 ELSE BareRule(text)

\* The rules with the redirector tried before the standard URL.
Resolve_GucFirst(text) ==
    IF GucSearch(text).ok THEN GucSearch(text).g1
    ELSE IF StdSearch(text).ok THEN StdSearch(text).g0
    ELSE BareRule(text)

Resolve(text) ==
    IF StdSearch(text).ok THEN StdSearch(text).g0 ELSE GucRule(text)

\* fetch_transcript's video_id: the ID inside the reference, else the reference.
NormalizeVideoId(video_id_or_url) ==
    IF StdSearch(video_id_or_url).ok
    THEN StdSearch(video_id_or_url).g1
    ELSE video_id_or_url

(***************************************************************************)
(* The values that stand for None                                          *)
(***************************************************************************)
\* None where the code holds a string (a language).
None == "None"

\* None where the code holds a text, a list of languages or an update.
NoText == <<"None">>

\* None where the code holds a list of captions.
NoCaptions == <<[start |-> -1, text |-> NoText]>>

NoRequest == [user |-> None, text |-> NoText]

\* _pick's (None, None): no URL, no format.
NoPick == [url |-> "", ext |-> ""]

(***************************************************************************)
(* Caption parsers (SRT + VTT)                                             *)
(***************************************************************************)
L_arrow == <<"-", "-", ">">>

\* The characters str.splitlines() breaks at (those of Whitespace that do).
LineBreaks == {"\n", "\r", "\f"}

\* str.splitlines(): "\r\n" is one break, no empty last line after a final break.
RECURSIVE SplitLines(_)
SplitLines(t) ==
    IF t = <<>> THEN <<>>
    ELSE LET brk == {k \in 1..Len(t) : t[k] \in LineBreaks}
         IN  IF brk = {} THEN <<t>>
             ELSE LET k == Min(brk)
                      n == IF t[k] = "\r" /\ k < Len(t) /\ t[k + 1] = "\n"
                           THEN k + 2 ELSE k + 1
                  IN  <<SubSeq(t, 1, k - 1)>> \o SplitLines(SubSeq(t, n, Len(t)))

\* " ".join(lines)
RECURSIVE JoinSpace(_)
JoinSpace(lines) ==
    IF lines = <<>> THEN <<>>
    ELSE IF Len(lines) = 1 THEN lines[1]
    ELSE lines[1] \o <<" ">> \o JoinSpace(Tail(lines))

\* [line.strip() for line in lines if line.strip()]
StrippedNonEmpty(lines) ==
    LET NonEmpty(l) == Strip(l) # <<>>
        kept == SelectSeq(lines, NonEmpty)
    IN  [i \in 1..Len(kept) |-> Strip(kept[i])]

\* _ts2sec
Ts2Sec(h, m, s) == h * 3600 + m * 60 + s

\* \d{n} at p
DigitsAt(t, p, n) ==
    /\ p + n - 1 <= Len(t)
    /\ \A k \in p..(p + n - 1) : t[k] \in Digits

\* (\d{2}:\d{2}:\d{2},\d{3}) at p: twelve characters.
SrtTsAt(t, p) ==
    /\ DigitsAt(t, p, 2) /\ LitAt(t, p + 2, <<":">>)
    /\ DigitsAt(t, p + 3, 2) /\ LitAt(t, p + 5, <<":">>)
    /\ DigitsAt(t, p + 6, 2) /\ LitAt(t, p + 8, <<",">>)
    /\ DigitsAt(t, p + 9, 3)

SrtTsLen == 12

\* The end (exclusive) of the run of white space started at p.
RECURSIVE SpaceEnd(_, _)
SpaceEnd(t, p) ==
    IF p <= Len(t) /\ t[p] \in Whitespace THEN SpaceEnd(t, p + 1) ELSE p

\* \s*?(?:\n\n|\Z) at p: the end (exclusive) of the shortest match, 0 if none.
\* The lazy \s*? grows one character at a time; at each length \n\n is tried
\* before \Z.
SrtCueEndAt(t, p) ==
    LET stop == SpaceEnd(t, p)
        ok == {q \in p..stop :
                 LitAt(t, q, <<"\n", "\n">>) \/ q = Len(t) + 1}
    IN  IF ok = {} THEN 0
        ELSE IF LitAt(t, Min(ok), <<"\n", "\n">>) THEN Min(ok) + 2
        ELSE Len(t) + 1

\* SRT_PATTERN matched at position p (re.S | re.M):
\*   ^\d+\s*?\n(\d{2}:\d{2}:\d{2},\d{3})\s*-->.*?\n(.+?)\s*?(?:\n\n|\Z)
\* with the lazy quantifiers tried shortest first.
SrtMatchAt(t, p) ==
    LET none == [ok |-> FALSE, g1 |-> <<>>, g2 |-> <<>>, end |-> 0]
        \* ^ under re.M, then \d+
        d == DigitsEnd(t, p)
        \* \s*?\n followed by the timestamp: the newlines that can end it
        nls == {j \in d..(SpaceEnd(t, d) - 1) :
                   t[j] = "\n" /\ SrtTsAt(t, j + 1)}
        \* \s*--> after the timestamp that starts at ts
        ArrowEnd(ts) ==
            IF LitAt(t, SpaceEnd(t, ts + SrtTsLen), L_arrow)
            THEN SpaceEnd(t, ts + SrtTsLen) + 3 ELSE 0
        \* .*?\n : the first newline after the arrow that leaves a body
        BodyStart(a) ==
            LET ks == {k \in a..Len(t) : t[k] = "\n" /\ k + 1 <= Len(t)}
            IN  IF a = 0 \/ ks = {} THEN 0 ELSE Min(ks) + 1
        good == {j \in nls : BodyStart(ArrowEnd(j + 1)) # 0}
    IN  IF ~(p = 1 \/ (p > 1 /\ t[p - 1] = "\n")) \/ d = p \/ good = {}
        THEN none
        ELSE LET ts == Min(good) + 1
                 b == BodyStart(ArrowEnd(ts))
                 \* (.+?) : the shortest body after which the cue can end
                 e == Min({x \in b..Len(t) : SrtCueEndAt(t, x + 1) # 0})
             IN  [ok |-> TRUE,
                  g1 |-> SubSeq(t, ts, ts + SrtTsLen - 1),
                  g2 |-> SubSeq(t, b, e),
                  end |-> SrtCueEndAt(t, e + 1)]

\* One entry of parse_srt from a match: the start from group 1 before the
\* comma, the body from group 2; no entry when the body is empty.
SrtEntry(m) ==
    LET h == ToInt(SubSeq(m.g1, 1, 2))
        mi == ToInt(SubSeq(m.g1, 4, 5))
        s == ToInt(SubSeq(m.g1, 7, 8))
        body == JoinSpace(StrippedNonEmpty(SplitLines(m.g2)))
    IN  IF body # <<>> THEN <<[start |-> Ts2Sec(h, mi, s), text |-> body]>>
        ELSE <<>>

\* SRT_PATTERN.finditer(text) from position pos on, each match turned into
\* its entry.
RECURSIVE SrtFrom(_, _)
SrtFrom(t, pos) ==
    LET ps == {p \in pos..Len(t) : SrtMatchAt(t, p).ok}
    IN  IF ps = {} THEN <<>>
        ELSE LET m == SrtMatchAt(t, Min(ps))
             IN  SrtEntry(m) \o SrtFrom(t, m.end)

parse_srt(text) == SrtFrom(text, 1)

\* The first index of "-->" in a line, 0 if the line has none.
ArrowIndex(line) ==
    LET ps == {p \in 1..Len(line) : LitAt(line, p, L_arrow)}
    IN  IF ps = {} THEN 0 ELSE Min(ps)

\* VTT_TS_RE matched at p: (\d{2,}):(\d{2}):(\d{2})\.(\d{3}); the greedy
\* hours take the whole run of digits.
VttTsAt(t, p) ==
    LET e == DigitsEnd(t, p)
    IN  /\ e - p >= 2
        /\ LitAt(t, e, <<":">>) /\ DigitsAt(t, e + 1, 2)
        /\ LitAt(t, e + 3, <<":">>) /\ DigitsAt(t, e + 4, 2)
        /\ LitAt(t, e + 6, <<".">>) /\ DigitsAt(t, e + 7, 3)

\* VTT_TS_RE.search(t): the groups h, m, s of the leftmost match.
VttTsSearch(t) ==
    LET ps == {p \in 1..Len(t) : VttTsAt(t, p)}
    IN  IF ps = {} THEN [ok |-> FALSE, h |-> 0, m |-> 0, s |-> 0]
        ELSE LET p == Min(ps)
                 e == DigitsEnd(t, p)
             IN  [ok |-> TRUE,
                  h |-> ToInt(SubSeq(t, p, e - 1)),
                  m |-> ToInt(SubSeq(t, e + 1, e + 2)),
                  s |-> ToInt(SubSeq(t, e + 4, e + 5))]

\* The inner loop of parse_vtt: the index of the first line from i on that is
\* blank after strip(), or len(lines) + 1.
RECURSIVE VttBodyEnd(_, _)
VttBodyEnd(lines, i) ==
    IF i <= Len(lines) /\ Strip(lines[i]) # <<>>
    THEN VttBodyEnd(lines, i + 1)
    ELSE i

\* An entry for every header with a timestamp, with no text when no line follows.
VttKeep_NoBodyCheck(ts_ok, body_lines) == ts_ok

\* An entry for every header with text, whatever its timestamp.
VttKeep_NoStampCheck(ts_ok, body_lines) == body_lines # <<>>

\* if ts_match and body_lines: the cue becomes an entry.
VttKeep(ts_ok, body_lines) == ts_ok /\ body_lines # <<>>

\* The outer loop of parse_vtt from line i on (lines are numbered from 1).
RECURSIVE VttFrom(_, _)
VttFrom(lines, i) ==
    IF i > Len(lines) THEN <<>>
    ELSE IF ArrowIndex(lines[i]) = 0 THEN VttFrom(lines, i + 1)
    ELSE LET head == Strip(SubSeq(lines[i], 1, ArrowIndex(lines[i]) - 1))
             ts_match == VttTsSearch(head)
             j == VttBodyEnd(lines, i + 1)
             body_lines == [k \in 1..(j - i - 1) |-> Strip(lines[i + k])]
         IN  (IF VttKeep(ts_match.ok, body_lines)
              THEN <<[start |-> Ts2Sec(ts_match.h, ts_match.m, ts_match.s),
                      text |-> JoinSpace(body_lines)]>>
              ELSE <<>>)
             \o VttFrom(lines, j + 1)

parse_vtt(text) == VttFrom(SplitLines(text), 1)

\* parse_captions: None (NoCaptions) for a format that is neither srt nor vtt.
parse_captions(text, ext) ==
    IF ext = "srt" THEN parse_srt(text)
    ELSE IF ext = "vtt" THEN parse_vtt(text)
    ELSE NoCaptions

(***************************************************************************)
(* Input texts for the resolver, built from their parts                    *)
(***************************************************************************)
\* The longest run of digits tried in a numeric redirector URL.
MaxNumLen == 2

Leads == {<<>>, <<" ">>, <<"s","e","e"," ">>}

Trails == {<<>>, <<"\n">>, <<" ","o","k">>}

WhiteOnly(t) == \A k \in 1..Len(t) : t[k] \in Whitespace

UrlSchemes == << <<>>, L_http \o L_css, L_http \o L_s \o L_css>>

UrlHosts == << <<>>, L_www, <<"m",".">>>>

\* youtube.com/watch? is form 1; forms 2..5 are the other youtube.com paths
\* and form 6 is youtu.be/.
UrlForms ==
    <<L_youtube_com \o <<"w","a","t","c","h","?">>,
      L_youtube_com \o StdPaths[2],
      L_youtube_com \o StdPaths[3],
      L_youtube_com \o StdPaths[4],
      L_youtube_com \o StdPaths[5],
      L_youtu_be>>

VideoIds == <<<<"d","Q","w","4","w","9","W","g","X","c","Q">>, <<"a","_","b","-","C","1","2","3","4","5","6">>>>

\* Query parameters placed before v= (watch URLs only) and after the ID.
PreParams == << <<>>, <<"f","e","a","t","u","r","e","=","s","h","a","r","e","&">>>>

PostParams == << <<>>, <<"&","t","=","4","2","s">>>>

RECURSIVE DigitStrings(_)
DigitStrings(n) ==
    IF n = 0 THEN {<<>>}
    ELSE LET shorter == DigitStrings(n - 1)
         IN  shorter \cup {s \o <<d>> : s \in shorter, d \in {"0", "7"}}

StdInputs ==
    [kind : {"std"}, scheme : 1..3, host : 1..3, form : 1..6, pre : {1},
     id : 1..2, post : 1..2, num : {<<"1","2","3">>}, bare : {<<>>}]
    \cup
    [kind : {"std"}, scheme : 1..3, host : 1..3, form : {1}, pre : {2},
     id : 1..2, post : 1..2, num : {<<"1","2","3">>}, bare : {<<>>}]

GucInputs ==
    [kind : {"guc"}, scheme : 1..3, host : 1..2, form : {1}, pre : {1},
     id : {1}, post : {1}, num : DigitStrings(MaxNumLen), bare : {<<>>}]

\* A standard URL and a redirector URL in one text, in either order.
BothInputs ==
    [kind : {"std guc", "guc std"}, scheme : 2..3, host : 1..2, form : {1, 2, 6},
     pre : 1..2, id : 1..2, post : {1}, num : {<<"1","2","3">>}, bare : {<<>>}]

\* A text that is no URL: an ID, an ID one short, one long, one with a
\* character outside the alphabet, plain words, nothing.
BareTexts ==
    {<<"d","Q","w","4","w","9","W","g","X","c","Q">>, <<"a","_","b","-","C","1","2","3","4","5","6">>, SubSeq(<<"d","Q","w","4","w","9","W","g","X","c","Q">>, 1, IdLen - 1), <<"d","Q","w","4","w","9","W","g","X","c","Q">> \o <<"x">>,
     <<"d","Q","w","4","w","9","!","g","X","c","Q">>, <<"h","e","l","l","o"," ","w","o","r","l","d">>, <<>>}

BareInputs ==
    [kind : {"bare"}, scheme : {1}, host : {1}, form : {1}, pre : {1},
     id : {1}, post : {1}, num : {<<"1","2","3">>}, bare : BareTexts]

ResolverInputs ==
    {[lead |-> l, trail |-> r, body |-> b] :
        l \in Leads, r \in Trails,
        b \in StdInputs \cup GucInputs \cup BothInputs \cup BareInputs}

\* The standard URL of an input, as the user typed it.
StdUrlText(b) ==
    UrlSchemes[b.scheme] \o UrlHosts[b.host] \o UrlForms[b.form]
    \o (IF b.form = 1 THEN PreParams[b.pre] \o <<"v","=">> ELSE <<>>)
    \o VideoIds[b.id] \o PostParams[b.post]

\* The redirector URL of an input.
GucUrlText(b) ==
    UrlSchemes[IF b.kind = "guc" THEN b.scheme ELSE 3]
    \o UrlHosts[IF b.kind = "guc" THEN b.host ELSE 1] \o L_guc \o b.num

InputText(i) ==
    i.lead
    \o (CASE i.body.kind = "std" -> StdUrlText(i.body)
          [] i.body.kind = "guc" -> GucUrlText(i.body)
          [] i.body.kind = "std guc" ->
                StdUrlText(i.body) \o <<" ">> \o GucUrlText(i.body)
          [] i.body.kind = "guc std" ->
                GucUrlText(i.body) \o <<" ">> \o StdUrlText(i.body)
          [] i.body.kind = "bare" -> i.body.bare)
    \o i.trail

(***************************************************************************)
(* State                                                                   *)
(***************************************************************************)
VARIABLES
    user_languages,  \* the process-wide dict user_languages
    pc,              \* where the one handle_message task in flight stands
    req,             \* its update: the user and the message text
    lang,            \* its local lang
    vid_url_or_id,   \* its local vid_url_or_id, and fetch_transcript's argument
    video_id,        \* fetch_transcript's local video_id
    langs,           \* fetch_transcript's argument langs
    sub,             \* fetch_transcript's locals url and ext
    captions,        \* what fetch_transcript returned
    transcript,      \* the text built for the prompt
    replies,         \* the messages shown to the user, in order
    log,             \* the calls to the collaborators, in order
    raised,          \* an exception left handle_message
    h_pc,            \* the stage of a function applied on its own
    h_in,            \* its input
    h_out            \* its result

mainVars ==
    <<user_languages, pc, req, lang, vid_url_or_id, video_id, langs, sub, captions,
      transcript, replies, log, raised>>

harnessVars == <<h_pc, h_in, h_out>>

vars == <<mainVars, harnessVars>>

Users == {"u1", "u2"}

Languages == {"en", "ru"}

\* No request in flight, nobody has chosen a language yet.
MainIdle ==
    /\ user_languages = [u \in Users |-> None]
    /\ pc = "idle"
    /\ req = NoRequest
    /\ lang = None
    /\ vid_url_or_id = NoText
    /\ video_id = NoText
    /\ langs = NoText
    /\ sub = NoPick
    /\ captions = NoCaptions
    /\ transcript = NoText
    /\ replies = <<>>
    /\ log = <<>>
    /\ raised = FALSE

HarnessIdle ==
    /\ h_pc = "off"
    /\ h_in = NoText
    /\ h_out = NoText

(***************************************************************************)
(* handle_message and fetch_transcript: the data they work on              *)
(***************************************************************************)
\* MENU_ITEMS; a character outside ASCII is written as its code point.
MENU_ITEMS ==
    [summarize |->
        [en |-> <<"U+1F4FA", " ", "S", "u", "m", "m", "a", "r", "i", "z", "e", " ",
                "V", "i", "d", "e", "o">>,
         ru |-> <<"U+1F4FA", " ", "U+0410", "U+043D", "U+043D", "U+043E", "U+0442",
                "U+0438", "U+0440", "U+043E", "U+0432", "U+0430", "U+0442", "U+044C",
                " ", "U+0432", "U+0438", "U+0434", "U+0435", "U+043E">>],
     change_lang |->
        [en |-> <<"U+1F310", " ", "C", "h", "a", "n", "g", "e", " ", "L", "a", "n",
                "g", "u", "a", "g", "e">>,
         ru |-> <<"U+1F310", " ", "U+0421", "U+043C", "U+0435", "U+043D", "U+0438",
                "U+0442", "U+044C", " ", "U+044F", "U+0437", "U+044B", "U+043A">>],
     help |->
        [en |-> <<"U+2753", " ", "H", "e", "l", "p">>,
         ru |-> <<"U+2753", " ", "U+041F", "U+043E", "U+043C", "U+043E", "U+0449",
                "U+044C">>]]

MenuKeys == {"summarize", "change_lang", "help"}

\* The languages fetch_transcript is called with: [lang, "en", "ru"].
LangList(l) == <<l, "en", "ru">>

\* What the captions API returns: items with a start in tenths of a second
\* (a float in the code) and a text that may be empty or hold a newline.
MaxDirectEntries == 2

DirectItems ==
    {[start10 |-> 0, text |-> <<"H", "i">>],
     [start10 |-> 659, text |-> <<"a", "\n", "b">>],
     [start10 |-> 12, text |-> <<>>]}

RECURSIVE SeqsUpTo(_, _)
SeqsUpTo(S, n) ==
    IF n = 0 THEN {<<>>}
    ELSE LET shorter == SeqsUpTo(S, n - 1)
         IN  shorter \cup {Append(q, x) : q \in shorter, x \in S}

DirectData == SeqsUpTo(DirectItems, MaxDirectEntries)

\* The text kept as it came.
ReplaceNewline_Keep(t) == t

\* text.replace("\n", " ")
ReplaceNewline(t) == [k \in 1..Len(t) |-> IF t[k] = "\n" THEN " " ELSE t[k]]

\* processed_transcripts: items with a text, start cut to whole seconds.
Processed(transcript_data) ==
    LET HasText(it) == it.text # <<>>
        kept == SelectSeq(transcript_data, HasText)
    IN  [i \in 1..Len(kept) |->
            [start |-> kept[i].start10 \div 10,
             text |-> ReplaceNewline(kept[i].text)]]

\* The ways get_transcript ends.
DirectErrors == {"TranscriptsDisabled", "NoTranscriptFound", "Exception"}

\* Every end of the call followed by the fallback, a returned list too.
DirectFallsBack_Always(outcome) == TRUE

\* Only the two errors of the captions API caught, any other left to the caller.
DirectFallsBack_TypedOnly(outcome) ==
    outcome \in {"TranscriptsDisabled", "NoTranscriptFound"}

\* The except clauses after the captions API call: which errors are logged
\* and followed by the yt_dlp fallback.
DirectFallsBack(outcome) ==
    outcome \in {"TranscriptsDisabled", "NoTranscriptFound", "Exception"}

\* A catalog of tracks is a dict, kept in its order: language and entries.
\* A catalog that is missing (None) and an empty one are both <<>>: _pick
\* tells them apart in nothing.
PrefFormats == {"srt", "vtt", "srv3", "ttml"}

EntryOk(entry) == entry.ext \in PrefFormats /\ entry.url # ""

\* The first entry of a language's list with a wanted format and a URL.
FirstEntry(entries) ==
    LET ok == SelectSeq(entries, EntryOk)
    IN  IF ok = <<>> THEN NoPick ELSE [url |-> ok[1].url, ext |-> ok[1].ext]

\* _pick: the preferred languages in their order, then any language of the
\* catalog in the catalog's order.
Pick(subs_info, pref_langs) ==
    IF subs_info = <<>> THEN NoPick
    ELSE LET Entries(l) ==
                 LET at == {i \in 1..Len(subs_info) : subs_info[i].lang = l}
                 IN  IF at = {} THEN <<>> ELSE subs_info[Min(at)].entries
             pref == {i \in 1..Len(pref_langs) :
                         FirstEntry(Entries(pref_langs[i])) # NoPick}
             any == {i \in 1..Len(subs_info) :
                         FirstEntry(subs_info[i].entries) # NoPick}
         IN  IF pref # {} THEN FirstEntry(Entries(pref_langs[Min(pref)]))
             ELSE IF any # {} THEN FirstEntry(subs_info[Min(any)].entries)
             ELSE NoPick

\* url, ext = _pick(subtitles), and _pick(automatic_captions) if that has no URL.
PickTrack(info, pref_langs) ==
    IF Pick(info.subtitles, pref_langs).url # ""
    THEN Pick(info.subtitles, pref_langs)
    ELSE Pick(info.automatic_captions, pref_langs)

\* What extract_info can return.
Catalogs ==
    {<<>>,
     << [lang |-> "en",
         entries |-> << [ext |-> "vtt", url |-> "u_en_vtt"],
                        [ext |-> "srt", url |-> "u_en_srt"] >>] >>,
     << [lang |-> "de",
         entries |-> << [ext |-> "srv3", url |-> "u_de_srv3"] >>] >>,
     << [lang |-> "ru",
         entries |-> << [ext |-> "json3", url |-> "u_ru_json3"],
                        [ext |-> "srt", url |-> ""] >>],
        [lang |-> "fr",
         entries |-> << [ext |-> "srt", url |-> "u_fr_srt"] >>] >>}

Infos == [subtitles : Catalogs, automatic_captions : Catalogs]

\* What the subtitle URL can answer with.
SrtBody ==
    <<"1", "\n", "0", "0", ":", "0", "0", ":", "0", "1", ",", "0", "0",
      "0", " ", "-", "-", ">", " ", "0", "0", ":", "0", "0", ":", "0", "2",
      ",", "0", "0", "0", "\n", "H", "i", "\n", "\n", "2", "\n", "0", "0",
      ":", "0", "1", ":", "0", "5", ",", "5", "0", "0", " ", "-", "-", ">",
      " ", "0", "0", ":", "0", "1", ":", "0", "6", ",", "0", "0", "0",
      "\n", "y", "o", "\n">>

VttBody ==
    <<"W", "E", "B", "V", "T", "T", "\n", "\n", "0", "0", ":", "0", "0",
      ":", "0", "1", ".", "0", "0", "0", " ", "-", "-", ">", " ", "0", "0",
      ":", "0", "0", ":", "0", "2", ".", "0", "0", "0", "\n", "H", "i",
      "\n", "\n", "0", "0", ":", "0", "1", ":", "0", "5", ".", "5", "0",
      "0", " ", "-", "-", ">", " ", "0", "0", ":", "0", "1", ":", "0", "6",
      ".", "0", "0", "0", "\n", "y", "o", "\n">>

\* Bodies of one cue whose text has two lines, with blanks around the first.
SrtTwoLineBody ==
    <<"1", "\n", "0", "0", ":", "0", "0", ":", "0", "1", ",", "0", "0",
      "0", " ", "-", "-", ">", " ", "0", "0", ":", "0", "0", ":", "0", "2",
      ",", "0", "0", "0", "\n", " ", "H", "i", " ", "\n", "y", "o", "\n">>

VttTwoLineBody ==
    <<"W", "E", "B", "V", "T", "T", "\n", "\n", "0", "0", ":", "0", "0",
      ":", "0", "1", ".", "0", "0", "0", " ", "-", "-", ">", " ", "0", "0",
      ":", "0", "0", ":", "0", "2", ".", "0", "0", "0", "\n", " ", "H", "i",
      " ", "\n", "y", "o", "\n">>

Bodies == {<<>>, SrtBody, VttBody, <<"x">>, SrtTwoLineBody, VttTwoLineBody}

\* if captions is not None
Usable_NotNone(caps) == caps # NoCaptions

\* if not captions
Usable(caps) == caps # NoCaptions /\ caps # <<>>

\* No try around the call of fetch_transcript.
OnFetchException_Raise == "raise"

\* A message of its own for an error, unlike the one for no captions.
OnFetchException_GenericError == "generic_error"

\* What handle_message does when fetch_transcript raises: the key of the
\* message it shows.
OnFetchException == "subtitles_not_found"

DigitChars == <<"0", "1", "2", "3", "4", "5", "6", "7", "8", "9">>

\* str(n) for n >= 0
RECURSIVE Decimal(_)
Decimal(n) ==
    IF n < 10 THEN <<DigitChars[n + 1]>>
    ELSE Decimal(n \div 10) \o <<DigitChars[(n % 10) + 1]>>

\* f"{n:02d}"
Format02d(n) == IF n < 10 THEN <<"0">> \o Decimal(n) ELSE Decimal(n)

\* f"[{minutes:02d}:{seconds:02d}] {c['text']}"
TranscriptLine(c) ==
    <<"[">> \o Format02d(c.start \div 60) \o <<":">>
    \o Format02d(c.start % 60) \o <<"]", " ">> \o c.text

\* "\n".join(parts)
RECURSIVE JoinNewline(_)
JoinNewline(parts) ==
    IF parts = <<>> THEN <<>>
    ELSE IF Len(parts) = 1 THEN parts[1]
    ELSE parts[1] \o <<"\n">> \o JoinNewline(Tail(parts))

MAX_TRANSCRIPT_CHARS == 15000

TruncationMarker ==
    <<"\n", "[", ".", ".", ".", "t", "r", "a", "n", "s", "c", "r", "i",
      "p", "t", " ", "t", "r", "u", "n", "c", "a", "t", "e", "d", " ", "a",
      "t", " ">>
    \o Decimal(MAX_TRANSCRIPT_CHARS) \o
    <<" ", "c", "h", "a", "r", "a", "c", "t", "e", "r", "s", ".", ".", ".",
      "]">>

\* The transcript handed to the prompt: one line per caption, cut to the budget.
RenderTranscript(caps) ==
    LET full == JoinNewline([i \in 1..Len(caps) |-> TranscriptLine(caps[i])])
    IN  IF Len(full) > MAX_TRANSCRIPT_CHARS
        THEN SubSeq(full, 1, MAX_TRANSCRIPT_CHARS) \o TruncationMarker
        ELSE full

\* tr(key, lang), as the key and the language of the string shown.
Tr(key, l) == [key |-> key, lang |-> l]

(***************************************************************************)
(* The bot: language selection, handle_message, fetch_transcript            *)
(***************************************************************************)
\* The texts users send (the TEXT filter lets no empty message through).
UrlText == <<"h", "t", "t", "p", "s", ":", "/", "/", "y", "o", "u", "t", "u", ".", "b", "e", "/", "d", "Q", "w", "4", "w", "9", "W", "g", "X", "c", "Q">>

GucText ==
    L_http \o L_s \o L_css \o L_guc \o <<"1", "2", "3">>

BareText == <<"d", "Q", "w", "4", "w", "9", "W", "g", "X", "c", "Q">>

\* Texts with no video reference in them.
NoReferenceTexts ==
    {<<"h", "e", "l", "l", "o", " ", "w", "o", "r", "l", "d">>,
     BareText \o <<"x">>,
     <<" ">>}

MenuTexts == {MENU_ITEMS[k][l] : k \in MenuKeys, l \in Languages}

MessageTexts ==
    {UrlText, <<" ">> \o UrlText \o <<"\n">>, GucText, BareText}
    \cup NoReferenceTexts \cup MenuTexts

Init ==
    /\ MainIdle
    /\ HarnessIdle

\* One language for the whole process instead of one per user.
SetLanguage_Everyone(u, l) == [v \in Users |-> l]

\* user_languages[user_id] = lang_code
SetLanguage(u, l) == [user_languages EXCEPT ![u] = l]

\* language_button_callback: user u presses the button of language l.
LanguageButton(u, l) ==
    /\ user_languages' = SetLanguage(u, l)
    /\ UNCHANGED <<pc, req, lang, vid_url_or_id, video_id, langs, sub, captions,
                   transcript, replies, log, raised, harnessVars>>

\* The menu item of language l that text is, None if it is none.
MenuKey(text, l) ==
    IF text = MENU_ITEMS["summarize"][l] THEN "summarize"
    ELSE IF text = MENU_ITEMS["change_lang"][l] THEN "change_lang"
    ELSE IF text = MENU_ITEMS["help"][l] THEN "help"
    ELSE None

\* What handle_message answers to a menu item.
MenuReply(key, l) ==
    IF key = "summarize" THEN Tr("prompt_send_link", l)
    ELSE IF key = "change_lang" THEN Tr("select_language", l)
    ELSE Tr("help_text", l)

\* English for a user who has chosen no language.
RequestLanguage_DefaultEn(u) ==
    IF user_languages[u] = None THEN "en" ELSE user_languages[u]

\* user_languages.get(user_id): None for a user who has chosen no language.
RequestLanguage(u) == user_languages[u]

\* handle_message up to its first await: the language prompt, the menu, the
\* reference found in the text, the status message.
HandleMessage(u, raw) ==
    /\ pc = "idle"
    /\ req' = [user |-> u, text |-> raw]
    /\ lang' = RequestLanguage(u)
    /\ LET l == RequestLanguage(u)
           text == Strip(raw)
       IN  IF l = None
           THEN /\ replies' = <<Tr("start_choose_language", "en")>>
                /\ vid_url_or_id' = NoText
                /\ pc' = "done"
           ELSE IF MenuKey(text, l) # None
           THEN /\ replies' = <<MenuReply(MenuKey(text, l), l)>>
                /\ vid_url_or_id' = NoText
                /\ pc' = "done"
           ELSE IF Resolve(text) = NotFound
           THEN /\ replies' = <<Tr("invalid_url", l)>>
                /\ vid_url_or_id' = NotFound
                /\ pc' = "done"
           ELSE /\ replies' = <<Tr("fetching_captions", l)>>
                /\ vid_url_or_id' = Resolve(text)
                /\ pc' = "status"
    /\ UNCHANGED <<user_languages, video_id, langs, sub, captions, transcript,
                   log, raised, harnessVars>>

\* The language looked up again in user_languages at each use.
RequestLang_FromMap == user_languages[req.user]

\* The language handle_message works with after its first await: its local
\* lang, read from user_languages once.
RequestLang == lang

\* fetch_transcript up to its first await: the video ID, then get_transcript
\* handed to the executor.
StartFetch ==
    /\ pc = "status"
    /\ langs' = LangList(RequestLang)
    /\ video_id' = NormalizeVideoId(vid_url_or_id)
    /\ log' = Append(log, "direct.call")
    /\ pc' = "direct"
    /\ UNCHANGED <<user_languages, req, lang, vid_url_or_id, sub, captions,
                   transcript, replies, raised, harnessVars>>

\* handle_message once fetch_transcript has returned caps: no captions is the
\* end, captions become the transcript and the status turns to summarizing.
FetchReturned(caps) ==
    /\ captions' = caps
    /\ IF Usable(caps)
       THEN /\ transcript' = RenderTranscript(caps)
            /\ replies' = Append(replies, Tr("summarizing", RequestLang))
            /\ pc' = "summarizing"
       ELSE /\ transcript' = NoText
            /\ replies' = Append(replies, Tr("subtitles_not_found", RequestLang))
            /\ pc' = "done"
    /\ raised' = raised

\* handle_message once fetch_transcript has raised.
FetchRaised ==
    /\ captions' = NoCaptions
    /\ transcript' = NoText
    /\ pc' = "done"
    /\ IF OnFetchException = "raise"
       THEN raised' = TRUE /\ replies' = replies
       ELSE /\ raised' = raised
            /\ replies' = Append(replies, Tr(OnFetchException, RequestLang))

\* get_transcript returns transcript_data: fetch_transcript returns the
\* processed items.
DirectSucceeds(transcript_data) ==
    /\ pc = "direct"
    /\ IF DirectFallsBack("ok")
       THEN /\ log' = log \o <<"direct.ok", "extract.call">>
            /\ pc' = "extract"
            /\ UNCHANGED <<captions, transcript, replies, raised>>
       ELSE /\ log' = Append(log, "direct.ok")
            /\ FetchReturned(Processed(transcript_data))
    /\ UNCHANGED <<user_languages, req, lang, vid_url_or_id, video_id, langs,
                   sub, harnessVars>>

\* get_transcript raises: the error is logged and extract_info is handed to
\* the executor.
DirectFails(error) ==
    /\ pc = "direct"
    /\ IF DirectFallsBack(error)
       THEN /\ log' = log \o <<"direct." \o error, "extract.call">>
            /\ pc' = "extract"
            /\ UNCHANGED <<captions, transcript, replies, raised>>
       ELSE /\ log' = Append(log, "direct." \o error)
            /\ FetchRaised
    /\ UNCHANGED <<user_languages, req, lang, vid_url_or_id, video_id, langs,
                   sub, harnessVars>>

\* extract_info raises, or returns nothing: fetch_transcript returns None.
ExtractFails(how) ==
    /\ pc = "extract"
    /\ log' = Append(log, "extract." \o how)
    /\ FetchReturned(NoCaptions)
    /\ UNCHANGED <<user_languages, req, lang, vid_url_or_id, video_id, langs,
                   sub, harnessVars>>

\* extract_info returns info: a track is picked; with none fetch_transcript
\* returns None, else the HTTP client is made (which may raise) and the GET
\* of the track's URL is awaited.
ExtractSucceeds(info, client_ok) ==
    /\ pc = "extract"
    /\ LET picked == PickTrack(info, langs)
       IN  IF picked.url = "" \/ picked.ext = ""
           THEN /\ log' = log \o <<"extract.ok", "pick.none">>
                /\ sub' = sub
                /\ FetchReturned(NoCaptions)
           ELSE IF ~client_ok
           THEN /\ log' = log \o <<"extract.ok", "client.error">>
                /\ sub' = picked
                /\ FetchRaised
           ELSE /\ log' = log \o <<"extract.ok", "http.call">>
                /\ sub' = picked
                /\ pc' = "http"
                /\ UNCHANGED <<captions, transcript, replies, raised>>
    /\ UNCHANGED <<user_languages, req, lang, vid_url_or_id, video_id, langs,
                   harnessVars>>

\* The ways the GET of the subtitles ends without a body.
HttpErrors == {"HTTPStatusError", "RequestError", "Exception"}

HttpFails(error) ==
    /\ pc = "http"
    /\ log' = Append(log, "http." \o error)
    /\ FetchReturned(NoCaptions)
    /\ UNCHANGED <<user_languages, req, lang, vid_url_or_id, video_id, langs,
                   sub, harnessVars>>

\* The GET returns a body: empty, fetch_transcript returns None; else what
\* parse_captions makes of it.
HttpSucceeds(body) ==
    /\ pc = "http"
    /\ log' = Append(log, "http.ok")
    /\ FetchReturned(IF body = <<>> THEN NoCaptions ELSE parse_captions(body, sub.ext))
    /\ UNCHANGED <<user_languages, req, lang, vid_url_or_id, video_id, langs,
                   sub, harnessVars>>

\* After the status was edited: the prompt goes to the summarizer.
Summarize ==
    /\ pc = "summarizing"
    /\ log' = Append(log, "summarize.call")
    /\ pc' = "openai"
    /\ UNCHANGED <<user_languages, req, lang, vid_url_or_id, video_id, langs,
                   sub, captions, transcript, replies, raised, harnessVars>>

\* The summarizer answers, or fails: the summary or the error is shown.
SummarizeReturns(ok) ==
    /\ pc = "openai"
    /\ log' = Append(log, IF ok THEN "summarize.ok" ELSE "summarize.error")
    /\ replies' = Append(replies,
                          Tr(IF ok THEN "summary" ELSE "openai_error", RequestLang))
    /\ pc' = "done"
    /\ UNCHANGED <<user_languages, req, lang, vid_url_or_id, video_id, langs,
                   sub, captions, transcript, raised, harnessVars>>

\* handle_message has ended: its locals are gone and the next message can come.
Finish ==
    /\ pc = "done"
    /\ pc' = "idle"
    /\ req' = NoRequest
    /\ lang' = None
    /\ vid_url_or_id' = NoText
    /\ video_id' = NoText
    /\ langs' = NoText
    /\ sub' = NoPick
    /\ captions' = NoCaptions
    /\ transcript' = NoText
    /\ replies' = <<>>
    /\ log' = <<>>
    /\ raised' = FALSE
    /\ UNCHANGED <<user_languages, harnessVars>>

Next ==
    \/ \E u \in Users, l \in Languages : LanguageButton(u, l)
    \/ \E u \in Users, raw \in MessageTexts : HandleMessage(u, raw)
    \/ StartFetch
    \/ \E d \in DirectData : DirectSucceeds(d)
    \/ \E e \in DirectErrors : DirectFails(e)
    \/ \E how \in {"error", "noinfo"} : ExtractFails(how)
    \/ \E info \in Infos, ok \in BOOLEAN : ExtractSucceeds(info, ok)
    \/ \E e \in HttpErrors : HttpFails(e)
    \/ \E body \in Bodies : HttpSucceeds(body)
    \/ Summarize
    \/ \E ok \in BOOLEAN : SummarizeReturns(ok)
    \/ Finish

Spec == Init /\ [][Next]_vars

(***************************************************************************)
(* The resolver on its own: handle_message's three rules, then             *)
(* fetch_transcript's normalisation of what they found                     *)
(***************************************************************************)
InitResolver ==
    /\ MainIdle
    /\ h_pc = "text"
    /\ h_in \in ResolverInputs
    /\ h_out = [text |-> NoText, ref |-> NoText, vid |-> NoText]

\* text = update.message.text.strip(), then the three rules.
ResolveStep ==
    /\ h_pc = "text"
    /\ h_out' = [text |-> Strip(InputText(h_in)),
                 ref |-> Resolve(Strip(InputText(h_in))),
                 vid |-> NoText]
    /\ h_pc' = "resolved"
    /\ UNCHANGED <<h_in, mainVars>>

\* if not vid_url_or_id: reply invalid_url and return.
RejectStep ==
    /\ h_pc = "resolved"
    /\ h_out.ref = NotFound
    /\ h_pc' = "invalid"
    /\ UNCHANGED <<h_in, h_out, mainVars>>

\* fetch_transcript(vid_url_or_id): video_id as given to the captions API.
NormalizeStep ==
    /\ h_pc = "resolved"
    /\ h_out.ref # NotFound
    /\ h_out' = [h_out EXCEPT !.vid = NormalizeVideoId(h_out.ref)]
    /\ h_pc' = "normalized"
    /\ UNCHANGED <<h_in, mainVars>>

NextResolver == ResolveStep \/ RejectStep \/ NormalizeStep

SpecResolver == InitResolver /\ [][NextResolver]_vars

(***************************************************************************)
(* parse_srt on its own, on SRT files built from well-formed cues          *)
(***************************************************************************)
MaxCues == 2

MaxLines == 2

\* Start times of cues: hours, minutes, seconds, milliseconds.
Stamps ==
    {[h |-> 0, m |-> 1, s |-> 5, ms |-> 500],
     [h |-> 1, m |-> 2, s |-> 3, ms |-> 999]}

\* Non-empty text lines.
CueLines == {<<"H", "i">>, <<"4", "2">>}

\* How the lines of the file end.
LineEnds == {<<"\n">>, <<"\r", "\n">>}

NonEmptySeqsUpTo(S, n) == SeqsUpTo(S, n) \ {<<>>}

Cues == [stamp : Stamps, lines : NonEmptySeqsUpTo(CueLines, MaxLines)]

\* A file: its cues, its line ending, and whether the last line is ended.
SrtInputs == [cues : SeqsUpTo(Cues, MaxCues), eol : LineEnds, closed : BOOLEAN]

\* f"{n:03d}"
Format03d(n) == IF n < 100 THEN <<"0">> \o Format02d(n) ELSE Decimal(n)

\* HH:MM:SS,mmm
SrtStamp(st) ==
    Format02d(st.h) \o <<":">> \o Format02d(st.m) \o <<":">>
    \o Format02d(st.s) \o <<",">> \o Format03d(st.ms)

\* The lines of cue number n: index, times, text.
CueText(n, cue, eol) ==
    Decimal(n) \o eol
    \o SrtStamp(cue.stamp) \o <<" ", "-", "-", ">", " ">> \o SrtStamp(cue.stamp)
    \o Flatten([k \in 1..Len(cue.lines) |-> eol \o cue.lines[k]])

\* The cues, a blank line between each two.
SrtText(i) ==
    Flatten([n \in 1..Len(i.cues) |->
        CueText(n, i.cues[n], i.eol)
        \o (IF n < Len(i.cues) THEN i.eol \o i.eol
            ELSE IF i.closed THEN i.eol ELSE <<>>)])

InitSrt ==
    /\ MainIdle
    /\ h_pc = "srt"
    /\ h_in \in SrtInputs
    /\ h_out = <<>>

ParseSrtStep ==
    /\ h_pc = "srt"
    /\ h_out' = parse_srt(SrtText(h_in))
    /\ h_pc' = "parsed"
    /\ UNCHANGED <<h_in, mainVars>>

NextSrt == ParseSrtStep

SpecSrt == InitSrt /\ [][NextSrt]_vars

(***************************************************************************)
(* parse_vtt on its own, on WebVTT files built from cue blocks             *)
(***************************************************************************)
MaxVttCues == 2

\* Start times as written in a header, whether they have the shape
\* H+:MM:SS.mmm with two or more hour digits, and the seconds they stand for.
VttStamps ==
    {[text |-> <<"0", "0", ":", "0", "1", ":", "0", "5", ".", "5", "0", "0">>,
      ok |-> TRUE, sec |-> 65],
     [text |-> <<"1", "0", "0", ":", "0", "0", ":", "0", "1", ".", "0", "0", "0">>,
      ok |-> TRUE, sec |-> 360001],
     [text |-> <<"0", "1", ":", "0", "5", ".", "5", "0", "0">>,
      ok |-> FALSE, sec |-> 0],
     [text |-> <<"1", "h", "0", "5">>,
      ok |-> FALSE, sec |-> 0]}

\* What a blank line holds.
VttBlanks == {<<>>, <<" ">>}

\* A cue block: the header's start time and the text lines under it, none
\* for a header that stands alone.
VttBodies == {<<>>, << <<"H", "i">> >>, << <<"H", "i">>, <<"4", "2">> >>}

VttCues == [stamp : VttStamps, lines : VttBodies]

\* A file: its blocks, its line ending, its blank lines, and whether the last
\* line is ended.
VttInputs ==
    [cues : SeqsUpTo(VttCues, MaxVttCues), eol : LineEnds, blank : VttBlanks,
     closed : BOOLEAN]

\* The lines of a block: the header, then the text lines.
VttCueText(cue, eol) ==
    cue.stamp.text \o <<" ", "-", "-", ">", " ">> \o cue.stamp.text
    \o Flatten([k \in 1..Len(cue.lines) |-> eol \o cue.lines[k]])

\* WEBVTT, a blank line, then the blocks with a blank line between each two.
VttText(i) ==
    <<"W", "E", "B", "V", "T", "T">> \o i.eol \o i.eol
    \o Flatten([n \in 1..Len(i.cues) |->
        VttCueText(i.cues[n], i.eol)
        \o (IF n < Len(i.cues) THEN i.eol \o i.blank \o i.eol
            ELSE IF i.closed THEN i.eol ELSE <<>>)])

InitVtt ==
    /\ MainIdle
    /\ h_pc = "vtt"
    /\ h_in \in VttInputs
    /\ h_out = <<>>

ParseVttStep ==
    /\ h_pc = "vtt"
    /\ h_out' = parse_vtt(VttText(h_in))
    /\ h_pc' = "parsed"
    /\ UNCHANGED <<h_in, mainVars>>

NextVtt == ParseVttStep

SpecVtt == InitVtt /\ [][NextVtt]_vars

(***************************************************************************)
(* The transcript text on its own: handle_message's loop over the captions, *)
(* the join and the cut to MAX_TRANSCRIPT_CHARS                             *)
(***************************************************************************)
MaxRenderEntries == 2

\* Start times in seconds, below and beyond one hour.
RenderStarts == {0, 65, 3599, 3600, 3725}

\* A text of n characters.
Filler(n) == [k \in 1..n |-> "x"]

\* Caption texts: short ones, and two that with the 8 characters of "[MM:SS] "
\* make a line of exactly MAX_TRANSCRIPT_CHARS characters and of one more.
RenderTexts ==
    {<<"H", "i">>, <<"y", "o">>,
     Filler(MAX_TRANSCRIPT_CHARS - 8), Filler(MAX_TRANSCRIPT_CHARS - 7)}

\* The captions handle_message renders: never an empty list (line 494).
RenderInputs ==
    NonEmptySeqsUpTo([start : RenderStarts, text : RenderTexts], MaxRenderEntries)

InitRender ==
    /\ MainIdle
    /\ h_pc = "captions"
    /\ h_in \in RenderInputs
    /\ h_out = <<>>

RenderStep ==
    /\ h_pc = "captions"
    /\ h_out' = RenderTranscript(h_in)
    /\ h_pc' = "rendered"
    /\ UNCHANGED <<h_in, mainVars>>

NextRender == RenderStep

SpecRender == InitRender /\ [][NextRender]_vars

(***************************************************************************)
(* The choice of a subtitle track on its own: _pick on the manual catalog,  *)
(* then on the automatic one                                               *)
(***************************************************************************)
MaxTrackEntries == 2

\* Formats of the entries of a track, all of them in _pick's pref_formats.
PickExts == {"srt", "vtt", "srv3"}

\* Languages of tracks: "en" is in every list of preferred languages, "de"
\* in none.
PickLangs == {"en", "de"}

\* The URL of an entry names its catalog, its language and its format.
TrackUrl(kind, l, ext) == kind \o "_" \o l \o "_" \o ext

\* The track of language l with entries of the formats exts, in their order.
Track(kind, l, exts) ==
    [lang |-> l,
     entries |-> [k \in 1..Len(exts) |->
                    [ext |-> exts[k], url |-> TrackUrl(kind, l, exts[k])]]]

\* The catalogs of one kind ("manual" or "auto"): none, one language, or two
\* languages in either order.
CatalogsOf(kind) ==
    LET lists == NonEmptySeqsUpTo(PickExts, MaxTrackEntries)
    IN  {<<>>}
        \cup {<<Track(kind, l, e)>> : l \in PickLangs, e \in lists}
        \cup {<<Track(kind, l[1], e1), Track(kind, l[2], e2)>> :
                l \in {<<"en", "de">>, <<"de", "en">>}, e1 \in lists, e2 \in lists}

\* What extract_info returned, and the language of the user.
PickInputs ==
    [info : [subtitles : CatalogsOf("manual"),
             automatic_captions : CatalogsOf("auto")],
     lang : Languages]

InitPick ==
    /\ MainIdle
    /\ h_pc = "info"
    /\ h_in \in PickInputs
    /\ h_out = NoPick

PickStep ==
    /\ h_pc = "info"
    /\ h_out' = PickTrack(h_in.info, LangList(h_in.lang))
    /\ h_pc' = "picked"
    /\ UNCHANGED <<h_in, mainVars>>

NextPick == PickStep

SpecPick == InitPick /\ [][NextPick]_vars

(***************************************************************************)
(* parse_vtt step by step: the outer loop over the lines and the inner     *)
(* loop over the lines of a cue's body; i counts from 0 as in the code.    *)
(* h_out holds the function's locals, and turns, the number of loop        *)
(* bodies run so far (both loops), which the code does not keep.           *)
(***************************************************************************)
\* lines = text.splitlines()
VttLines == SplitLines(VttText(h_in))

\* The index left where it is.
VttAdvance_Stay(i) == i

\* i += 1 at the end of the outer loop's body
VttAdvance(i) == i + 1

\* The files scanned step by step: those whose headers carry the well-formed
\* start time 00:01:05.500 or the malformed 1h05.
VttLoopInputs ==
    {f \in VttInputs :
        \A n \in 1..Len(f.cues) :
            f.cues[n].stamp.sec = 65 \/ Len(f.cues[n].stamp.text) = 4}

InitVttLoop ==
    /\ MainIdle
    /\ h_pc = "outer"
    /\ h_in \in VttLoopInputs
    /\ h_out = [lines |-> VttLines, i |-> 0, ts_match |-> VttTsSearch(<<>>),
                body_lines |-> <<>>, entries |-> <<>>, turns |-> 0]

\* One turn of the outer loop up to the inner loop: a header line sets
\* ts_match and goes on to its body, any other line is passed.
VttOuterStep ==
    /\ h_pc = "outer"
    /\ h_out.i < Len(h_out.lines)
    /\ LET line == h_out.lines[h_out.i + 1]
       IN  IF ArrowIndex(line) # 0
           THEN /\ h_out' = [h_out EXCEPT
                      !.ts_match = VttTsSearch(
                          Strip(SubSeq(line, 1, ArrowIndex(line) - 1))),
                      !.i = @ + 1,
                      !.body_lines = <<>>]
                /\ h_pc' = "inner"
           ELSE /\ h_out' = [h_out EXCEPT !.i = VttAdvance(@),
                                          !.turns = @ + 1]
                /\ h_pc' = "outer"
    /\ UNCHANGED <<h_in, mainVars>>

\* One turn of the inner loop: a line that is not blank joins the body.
VttInnerStep ==
    /\ h_pc = "inner"
    /\ h_out.i < Len(h_out.lines)
    /\ Strip(h_out.lines[h_out.i + 1]) # <<>>
    /\ h_out' = [h_out EXCEPT
           !.body_lines = Append(@, Strip(h_out.lines[h_out.i + 1])),
           !.i = @ + 1,
           !.turns = @ + 1]
    /\ h_pc' = "inner"
    /\ UNCHANGED <<h_in, mainVars>>

\* The inner loop is over: the cue becomes an entry or not, and the outer
\* loop's turn ends.
VttCueEnd ==
    /\ h_pc = "inner"
    /\ ~(h_out.i < Len(h_out.lines) /\ Strip(h_out.lines[h_out.i + 1]) # <<>>)
    /\ h_out' = [h_out EXCEPT
           !.entries =
               IF VttKeep(h_out.ts_match.ok, h_out.body_lines)
               THEN Append(@, [start |-> Ts2Sec(h_out.ts_match.h, h_out.ts_match.m,
                                               h_out.ts_match.s),
                               text |-> JoinSpace(h_out.body_lines)])
               ELSE @,
           !.i = VttAdvance(@),
           !.turns = @ + 1]
    /\ h_pc' = "outer"
    /\ UNCHANGED <<h_in, mainVars>>

\* while i < len(lines) is false: return entries
VttReturn ==
    /\ h_pc = "outer"
    /\ ~(h_out.i < Len(h_out.lines))
    /\ h_pc' = "returned"
    /\ UNCHANGED <<h_in, h_out, mainVars>>

NextVttLoop == VttOuterStep \/ VttInnerStep \/ VttCueEnd \/ VttReturn

SpecVttLoop == InitVttLoop /\ [][NextVttLoop]_vars

(***************************************************************************)
(* Properties                                                              *)
(***************************************************************************)
InLog(e) == \E i \in 1..Len(log) : log[i] = e

Count(e) == Cardinality({i \in 1..Len(log) : log[i] = e})

Last(q) == q[Len(q)]

DirectFailed == \E e \in DirectErrors : InLog("direct." \o e)

\* fetch_transcript gave None or an empty list.
NoEntries == captions = NoCaptions \/ captions = <<>>

\* The extractor was tried and gave no captions.
ExtractorFailed ==
    \/ InLog("extract.error")
    \/ InLog("extract.noinfo")
    \/ InLog("pick.none")
    \/ InLog("client.error")
    \/ \E e \in HttpErrors : InLog("http." \o e)
    \/ InLog("http.ok") /\ NoEntries

\* A source call raised an error that is no clean not-found.
UnexpectedError ==
    \/ InLog("direct.Exception")
    \/ InLog("extract.error")
    \/ InLog("client.error")
    \/ InLog("http.Exception")

\* C1: within one fetch_transcript call, extract_info and the subtitle GET
\* are never invoked when get_transcript returned, and never before
\* get_transcript has been called and has ended.
C1_ExtractorOnlyAfterDirectFailed ==
    \A i \in 1..Len(log) :
        log[i] \in {"extract.call", "http.call"} =>
            /\ ~InLog("direct.ok")
            /\ \E j \in 1..(i - 1) : log[j] = "direct.call"
            /\ \E j \in 1..(i - 1) : \E e \in DirectErrors : log[j] = "direct." \o e

C1_Witness ==
    /\ pc = "http"
    /\ InLog("direct.NoTranscriptFound")
    /\ Last(log) = "http.call"

\* C2: once get_transcript has ended with an error, extract_info has been
\* invoked exactly once, also when the request ends with no captions; it is
\* never invoked twice.
C2_ExtractorExactlyOnce ==
    /\ Count("extract.call") <= 1
    /\ DirectFailed => Count("extract.call") = 1

C2_Witness ==
    /\ pc = "done"
    /\ InLog("direct.Exception")
    /\ Count("extract.call") = 1
    /\ Last(replies).key = "subtitles_not_found"

\* C3: when get_transcript returns without error and no entry is left (no
\* item, or only items with an empty text), extract_info is invoked instead
\* of the request ending with the empty result.
C3_EmptyDirectResultFallsBack ==
    (pc = "done" /\ InLog("direct.ok") /\ captions = <<>>) => InLog("extract.call")

\* C4: a text in which the three rules find no reference ends with the
\* invalid_url message, and no collaborator is ever called for it.
C4_NoReferenceNoCalls ==
    ( /\ pc # "idle"
      /\ lang # None
      /\ req.text \in NoReferenceTexts \cup MenuTexts
      /\ MenuKey(Strip(req.text), lang) = None )
    => /\ pc = "done"
       /\ replies = <<Tr("invalid_url", lang)>>
       /\ log = <<>>
       /\ transcript = NoText

C4_Witness ==
    /\ pc = "done"
    /\ lang = "en"
    /\ Len(req.text) = IdLen + 1
    /\ req.text \in NoReferenceTexts
    /\ replies = <<Tr("invalid_url", "en")>>

\* C5: when get_transcript fails and the extractor gives no captions, the
\* request ends with the subtitles_not_found message, no transcript is built
\* and the summarizer is not called.
C5_BothFailNoTranscript ==
    (DirectFailed /\ ExtractorFailed)
    => /\ pc = "done"
       /\ Last(replies) = Tr("subtitles_not_found", lang)
       /\ transcript = NoText
       /\ ~InLog("summarize.call")

C5_Witness ==
    /\ pc = "done"
    /\ DirectFailed
    /\ InLog("http.ok")
    /\ captions = <<>>

\* The messages a request that reached fetch_transcript can end with.
TerminalKeys == {"summary", "subtitles_not_found", "openai_error"}

\* C6: a request that reached fetch_transcript ends with exactly one of the
\* summary of the transcript handed on, the subtitles_not_found message, or
\* an error message; no exception leaves handle_message.
C6_OneOutcomeNoException ==
    /\ raised = FALSE
    /\ (pc = "done" /\ InLog("direct.call"))
       => /\ Cardinality({i \in 1..Len(replies) : replies[i].key \in TerminalKeys}) = 1
          /\ Last(replies).key \in TerminalKeys
          /\ (Last(replies).key = "subtitles_not_found") <=> (transcript = NoText)

C6_Witness ==
    /\ pc = "done"
    /\ InLog("client.error")
    /\ raised = FALSE
    /\ Last(replies).key = "subtitles_not_found"

\* C7 as claimed: when a source call raised an unexpected error and no
\* source gave captions, the message shown is another one than
\* subtitles_not_found.
C7_UnexpectedErrorShownApart ==
    (pc = "done" /\ UnexpectedError /\ NoEntries)
    => Last(replies).key # "subtitles_not_found"

\* C7 as amended: when a source call raised an unexpected error and no
\* source gave captions, the user is shown subtitles_not_found in the
\* request's language, as for a clean not-found, and no other message after
\* the status.
C7_UnexpectedErrorShownAsNoCaptions ==
    (pc = "done" /\ UnexpectedError /\ NoEntries)
    => /\ Last(replies) = Tr("subtitles_not_found", lang)
       /\ \A i \in 1..Len(replies) :
            replies[i].key \in {"fetching_captions", "subtitles_not_found"}

C7_Witness ==
    /\ pc = "done"
    /\ InLog("direct.Exception")
    /\ InLog("extract.error")
    /\ replies = <<Tr("fetching_captions", "ru"), Tr("subtitles_not_found", "ru")>>

\* The last n characters of t.
Suffix(t, n) == SubSeq(t, Len(t) - n + 1, Len(t))

\* The input holds a standard URL in the shape YOUTUBE_STD_REGEX knows: the
\* ID right after the path or after watch?v=.
HasStdMatch(i) ==
    /\ i.body.kind \in {"std", "std guc", "guc std"}
    /\ i.body.form # 1 \/ i.body.pre = 1

\* The input holds a redirector URL: a scheme, the host, digits.
HasGucMatch(i) ==
    \/ i.body.kind \in {"std guc", "guc std"}
    \/ i.body.kind = "guc" /\ i.body.scheme # 1 /\ i.body.num # <<>>

\* The input is an ID and white space, nothing else.
IsBareId(i) ==
    /\ i.body.kind = "bare"
    /\ \E n \in 1..Len(VideoIds) : i.body.bare = VideoIds[n]
    /\ WhiteOnly(i.lead) /\ WhiteOnly(i.trail)

\* C8: a text with a standard URL (any of the six shapes, with or without
\* query parameters before and after the ID, with or without text around it)
\* resolves, and the video_id given to the captions API is the ID in the URL.
C8_StdUrlYieldsItsId ==
    (h_pc # "text" /\ h_in.body.kind = "std")
    => /\ h_out.ref # NotFound
       /\ h_pc = "normalized" => h_out.vid = VideoIds[h_in.body.id]

\* C9: the standard URL wins over the redirector URL, which wins over the
\* bare ID; the bare ID needs the whole stripped text to be 11 characters of
\* the alphabet; anything else is not found.
C9_RulePrecedence ==
    h_pc # "text" =>
        IF HasStdMatch(h_in)
        THEN /\ Len(h_out.ref) >= Len(UrlForms[h_in.body.form]) + IdLen
             /\ Suffix(h_out.ref, IdLen) = VideoIds[h_in.body.id]
             /\ LitAt(h_out.ref, Len(h_out.ref) - IdLen - 1, <<"v", "=">>)
                \/ LitAt(h_out.ref, Len(h_out.ref) - IdLen, <<"/">>)
        ELSE IF HasGucMatch(h_in) THEN h_out.ref = GucUrlText(h_in.body)
        ELSE IF IsBareId(h_in) THEN h_out.ref = h_in.body.bare
        ELSE h_out.ref = NotFound

C9_Witness ==
    /\ h_pc = "resolved"
    /\ h_in.body.kind = "guc std"
    /\ HasStdMatch(h_in)
    /\ Suffix(h_out.ref, IdLen) = VideoIds[h_in.body.id]

\* C10: parse_srt of a file of N well-formed cues returns N entries, in the
\* order of the cues, entry n starting at 3600*H + 60*M + S of cue n.
C10_SrtCuesParsed ==
    h_pc = "parsed" =>
        /\ Len(h_out) = Len(h_in.cues)
        /\ \A n \in 1..Len(h_out) :
            h_out[n].start = 3600 * h_in.cues[n].stamp.h
                             + 60 * h_in.cues[n].stamp.m + h_in.cues[n].stamp.s

\* The entry a block stands for: its start time in whole seconds and its
\* lines joined by single spaces.
VttEntryOf(cue) == [start |-> cue.stamp.sec, text |-> JoinSpace(cue.lines)]

HasBody(cue) == cue.lines # <<>>

GoodStamp(cue) == cue.stamp.ok

\* The entries of the blocks of cues that Keep holds of, in their order.
VttEntriesOf(cues, Keep(_)) ==
    LET kept == SelectSeq(cues, Keep)
    IN  [n \in 1..Len(kept) |-> VttEntryOf(kept[n])]

\* C11: a header line followed by a blank line or by the end of the input
\* gives no entry: in a file whose headers with text lines are well-formed,
\* parse_vtt returns the entries of the headers that have text lines, and
\* nothing for the others.
C11_VttHeaderWithoutBodyNoEntry ==
    (h_pc = "parsed" /\ \A n \in 1..Len(h_in.cues) :
                            HasBody(h_in.cues[n]) => GoodStamp(h_in.cues[n]))
    => h_out = VttEntriesOf(h_in.cues, HasBody)

C11_Witness ==
    /\ h_pc = "parsed"
    /\ Len(h_in.cues) = 2
    /\ HasBody(h_in.cues[1]) /\ GoodStamp(h_in.cues[1])
    /\ ~HasBody(h_in.cues[2]) /\ GoodStamp(h_in.cues[2])
    /\ ~h_in.closed
    /\ h_out = <<VttEntryOf(h_in.cues[1])>>

\* C20: a header whose start time has not the shape H+:MM:SS.mmm gives no
\* entry and does not end the scan: in a file whose headers all have text
\* lines, parse_vtt returns the entries of the well-formed headers, in their
\* order, those after a malformed one too.
C20_VttMalformedHeaderSkipped ==
    (h_pc = "parsed" /\ \A n \in 1..Len(h_in.cues) : HasBody(h_in.cues[n]))
    => h_out = VttEntriesOf(h_in.cues, GoodStamp)

C20_Witness ==
    /\ h_pc = "parsed"
    /\ Len(h_in.cues) = 2
    /\ HasBody(h_in.cues[1]) /\ ~GoodStamp(h_in.cues[1])
    /\ HasBody(h_in.cues[2]) /\ GoodStamp(h_in.cues[2])
    /\ h_out = <<VttEntryOf(h_in.cues[2])>>

\* The label of a line as the specification words it: [MM:SS] below one
\* hour, [HH:MM:SS] from one hour on.
ClaimedLabel(start) ==
    IF start < 3600
    THEN <<"[">> \o Format02d(start \div 60) \o <<":">>
         \o Format02d(start % 60) \o <<"]">>
    ELSE <<"[">> \o Format02d(start \div 3600) \o <<":">>
         \o Format02d((start % 3600) \div 60) \o <<":">>
         \o Format02d(start % 60) \o <<"]">>

\* The texts of the captions, joined by single spaces.
JoinedTexts(caps) == JoinSpace([n \in 1..Len(caps) |-> caps[n].text])

\* C12: captions that all share one start time become one line of the
\* transcript, holding their texts joined by single spaces in their order.
C12_SameStartOneBlock ==
    (/\ h_pc = "rendered"
     /\ \A n \in 1..Len(h_in) : h_in[n].start = h_in[1].start
     /\ Len(ClaimedLabel(h_in[1].start)) + 1 + Len(JoinedTexts(h_in))
        <= MAX_TRANSCRIPT_CHARS)
    => /\ \A k \in 1..Len(h_out) : h_out[k] # "\n"
       /\ Len(h_out) >= Len(JoinedTexts(h_in))
       /\ Suffix(h_out, Len(JoinedTexts(h_in))) = JoinedTexts(h_in)

\* C13: a line is "[MM:SS] text" when its start is below 3600 seconds and
\* "[HH:MM:SS] text" from 3600 seconds on, so that the minutes shown stay
\* below 60 (stated of a transcript of one caption that fits the budget).
C13_LabelByHour ==
    (/\ h_pc = "rendered"
     /\ Len(h_in) = 1
     /\ Len(ClaimedLabel(h_in[1].start)) + 1 + Len(h_in[1].text)
        <= MAX_TRANSCRIPT_CHARS)
    => h_out = ClaimedLabel(h_in[1].start) \o <<" ">> \o h_in[1].text

\* The lines of the captions joined by newlines, before any cut.
FullRendering(caps) ==
    JoinNewline([n \in 1..Len(caps) |-> TranscriptLine(caps[n])])

\* C14: the transcript handed to the summarizer is never longer than
\* MAX_TRANSCRIPT_CHARS, it ends with the truncation marker exactly when the
\* lines together were longer than that, and otherwise it is the lines
\* unchanged.
C14_TranscriptWithinBudget ==
    h_pc = "rendered" =>
        LET full == FullRendering(h_in)
            marked == /\ Len(h_out) >= Len(TruncationMarker)
                      /\ Suffix(h_out, Len(TruncationMarker)) = TruncationMarker
        IN  /\ Len(h_out) <= MAX_TRANSCRIPT_CHARS
            /\ marked <=> (Len(full) > MAX_TRANSCRIPT_CHARS)
            /\ (Len(full) <= MAX_TRANSCRIPT_CHARS) => (h_out = full)

\* The request in flight and everything it has produced so far.
RequestState ==
    <<pc, req, lang, vid_url_or_id, video_id, langs, sub, captions, transcript,
      replies, log, raised>>

\* C15: a step that changes the entry of a user in user_languages changes no
\* other user's entry and is no step of handle_message (the request in flight
\* stays as it is); so handling a message for u leaves every entry, that of
\* any other user v included, as it was.
C15_LanguageMapFrame ==
    [][\A v \in Users :
          user_languages'[v] # user_languages[v]
          => /\ \A w \in Users \ {v} : user_languages'[w] = user_languages[w]
             /\ UNCHANGED RequestState]_vars

C15_Witness ==
    /\ pc = "done"
    /\ req.user = "u1"
    /\ lang = "en"
    /\ user_languages["u1"] = "en"
    /\ user_languages["u2"] = "ru"

\* The languages fetch_transcript prefers for the request.
PreferredLangs(i) == {LangList(i.lang)[k] : k \in 1..3}

\* The URLs of the entries of catalog's tracks whose language is in ls.
UrlsOf(catalog, ls) ==
    UNION {{catalog[n].entries[k].url : k \in 1..Len(catalog[n].entries)} :
              n \in {m \in 1..Len(catalog) : catalog[m].lang \in ls}}

\* C16: the track chosen is a manual one of a preferred language if there
\* is one, else an automatic one of a preferred language if there is one,
\* else one of any language; so no manual track of another language is
\* chosen while an automatic track of a preferred language exists.
C16_TierOrder ==
    h_pc = "picked" =>
        LET manual == h_in.info.subtitles
            auto == h_in.info.automatic_captions
            pref == PreferredLangs(h_in)
        IN  IF UrlsOf(manual, pref) # {} THEN h_out.url \in UrlsOf(manual, pref)
            ELSE IF UrlsOf(auto, pref) # {} THEN h_out.url \in UrlsOf(auto, pref)
            ELSE IF UrlsOf(manual \o auto, PickLangs) # {}
                 THEN h_out.url \in UrlsOf(manual \o auto, PickLangs)
            ELSE h_out = NoPick

\* The entries of the track the chosen URL comes from (<<>> if none was chosen).
ChosenEntries(i, pick) ==
    LET all == i.info.subtitles \o i.info.automatic_captions
        at == {n \in 1..Len(all) :
                 \E k \in 1..Len(all[n].entries) : all[n].entries[k].url = pick.url}
    IN  IF at = {} THEN <<>> ELSE all[Min(at)].entries

\* The track has an entry of format ext.
HasFormat(entries, ext) == \E k \in 1..Len(entries) : entries[k].ext = ext

\* C17: when the track of the chosen language has an SRT entry and a VTT
\* entry, the SRT entry is the one returned, in whatever order they stand.
C17_SrtBeforeVtt ==
    (/\ h_pc = "picked"
     /\ HasFormat(ChosenEntries(h_in, h_out), "srt")
     /\ HasFormat(ChosenEntries(h_in, h_out), "vtt"))
    => h_out.ext = "srt"

\* C18: the format returned with a URL is one parse_captions has a parser
\* for, SRT or VTT; in particular no other format is returned from a track
\* that has an SRT or a VTT entry.
C18_FormatHasParser ==
    (h_pc = "picked" /\ h_out # NoPick)
    => /\ h_out.ext \in {"srt", "vtt"}
       /\ \A body \in Bodies : parse_captions(body, h_out.ext) # NoCaptions

\* C19: get_transcript is called with a video ID only: whatever reference
\* the resolver found, the redirector URL too, the video_id fetch_transcript
\* hands to it is 11 characters of [A-Za-z0-9_-].
C19_DirectArgumentIsVideoId ==
    h_pc = "normalized" =>
        /\ Len(h_out.vid) = IdLen
        /\ \A k \in 1..Len(h_out.vid) : h_out.vid[k] \in IdChars

\* C21: every entry fetch_transcript returned, from the captions API, from
\* parse_srt or from parse_vtt, has a start that is a natural number and a
\* text that is not empty and holds no newline.
C21_EntriesWellFormed ==
    captions # NoCaptions =>
        \A n \in 1..Len(captions) :
            /\ captions[n].start \in Nat
            /\ captions[n].text # <<>>
            /\ \A k \in 1..Len(captions[n].text) : captions[n].text[k] # "\n"

C21_Witness ==
    /\ InLog("direct.ok")
    /\ Len(captions) = 2
    /\ captions[1] = [start |-> 65, text |-> <<"a", " ", "b">>]
    /\ captions[2] = [start |-> 0, text |-> <<"H", "i">>]

\* The seconds a line's label [MM:SS] stands for.
LabelSeconds(line) ==
    LET e == DigitsEnd(line, 2)
    IN  60 * ToInt(SubSeq(line, 2, e - 1)) + ToInt(SubSeq(line, e + 1, e + 2))

\* C22: the labels of the lines of the transcript never go back in time
\* from the first line to the last, whatever the order of the starts the
\* source gave (stated of a transcript that was not cut).
C22_LabelsMonotonic ==
    (h_pc = "rendered" /\ Len(FullRendering(h_in)) <= MAX_TRANSCRIPT_CHARS)
    => LET lines == SplitLines(h_out)
       IN  \A a \in 1..Len(lines) : \A b \in a..Len(lines) :
              LabelSeconds(lines[a]) <= LabelSeconds(lines[b])

\* C23: a request works with one language: the one read from user_languages
\* when handle_message starts is its lang to its end, it heads the languages
\* given to fetch_transcript, and every message of the request is in it,
\* also when language_button_callback changes the user's entry meanwhile.
C23_OneLanguagePerRequest ==
    [][/\ (pc = "idle" /\ pc' # "idle") => lang' = user_languages[req'.user]
       /\ (pc # "idle" /\ pc' # "idle") => lang' = lang
       /\ (pc' # "idle" /\ lang' # None)
          => /\ langs' \in {NoText, <<lang', "en", "ru">>}
             /\ \A i \in 1..Len(replies') : replies'[i].lang = lang']_vars

C23_Witness ==
    /\ pc = "done"
    /\ lang = "en"
    /\ user_languages[req.user] = "ru"
    /\ langs = <<"en", "en", "ru">>
    /\ InLog("summarize.call")
    /\ replies = <<Tr("fetching_captions", "en"), Tr("summarizing", "en"),
                   Tr("summary", "en")>>

\* C24: the summarizer is called at most once in a request, and only once
\* fetch_transcript has returned a list with entries: never after
\* invalid_url or subtitles_not_found.
C24_SummarizerOnceAfterCaptions ==
    /\ Count("summarize.call") <= 1
    /\ InLog("summarize.call")
       => /\ ~NoEntries
          /\ transcript # NoText
          /\ \A i \in 1..Len(replies) :
                replies[i].key \notin {"invalid_url", "subtitles_not_found"}
    /\ (pc = "done" /\ Last(replies).key \in {"invalid_url", "subtitles_not_found"})
       => ~InLog("summarize.call")

C24_Witness ==
    /\ pc = "done"
    /\ InLog("extract.ok")
    /\ Count("summarize.call") = 1
    /\ Len(captions) = 2
    /\ Last(replies).key = "openai_error"

\* C25: for a user with no entry in user_languages, handle_message only
\* shows the language prompt and ends: it looks for no reference, calls no
\* source and no summarizer, and leaves user_languages as it was.
C25_NoLanguageOnlyPrompt ==
    [][(pc = "idle" /\ pc' # "idle" /\ user_languages[req'.user] = None)
       => /\ pc' = "done"
          /\ replies' = <<Tr("start_choose_language", "en")>>
          /\ vid_url_or_id' = NoText /\ video_id' = NoText /\ langs' = NoText
          /\ log' = <<>>
          /\ captions' = NoCaptions /\ transcript' = NoText
          /\ user_languages' = user_languages]_vars

C25_Witness ==
    /\ pc = "done"
    /\ req = [user |-> "u1", text |-> UrlText]
    /\ user_languages["u1"] = None
    /\ user_languages["u2"] = "en"
    /\ replies = <<Tr("start_choose_language", "en")>>
    /\ log = <<>>

\* C26: parse_vtt ends on every input: every turn of the outer loop and of
\* the inner loop leaves the line index greater than it found it, no step
\* takes the index back or further than one past the number of lines (so
\* the turns are at most that many), and the function returns only once the
\* index has reached the number of lines.
C26_VttScanTerminates ==
    [][/\ h_out'.i >= h_out.i
       /\ h_out'.i <= Len(h_out.lines) + 1
       /\ h_out'.turns > h_out.turns => h_out'.i > h_out.i
       /\ h_out'.turns <= h_out'.i
       /\ h_pc' # "returned" => h_out'.i > h_out.i
       /\ h_pc' = "returned" => h_out.i >= Len(h_out.lines)]_vars

C26_Witness ==
    /\ h_pc = "returned"
    /\ Len(h_in.cues) = 2
    /\ ~HasBody(h_in.cues[2]) /\ h_in.closed
    /\ h_out.i = Len(h_out.lines) + 1
    /\ h_out.turns >= 2
    /\ Len(h_out.entries) = 1

====
